---- MODULE Spec2Model ----
(***************************************************************************)
(* Model of server.js: the port-acquisition controller (startServer,      *)
(* startHttpFallback, startHttpServerWithFallback) running on the Node.js  *)
(* event loop, and the two request responders (the Express app and the     *)
(* bare http fallback).                                                    *)
(*                                                                         *)
(* Platform behaviour the code relies on (Node >= 14, Express 4.x):        *)
(*  - server.listen(port, cb) throws ERR_SERVER_ALREADY_LISTEN when the    *)
(*    server already holds a handle; otherwise it registers cb with        *)
(*    once('listening'), binds synchronously, and delivers the outcome     *)
(*    ('listening' or 'error') from process.nextTick.  A failed bind       *)
(*    leaves the server without a handle, so listen may be called again.   *)
(*  - emitter.on(ev, h) appends h; emit(ev) calls a snapshot of the        *)
(*    registered listeners synchronously, in registration order.           *)
(*  - an exception that escapes a listener is uncaught: the process ends   *)
(*    with exit status 1.  process.exit(1) ends the process at once.       *)
(*  - app.listen creates a fresh http.Server on every call.                *)
(***************************************************************************)
EXTENDS Integers, Sequences, FiniteSets, TLC

\* ---------------------------------------------------------------- constants
DEFAULT_PORT == 3000

MAX_PORT == 3010

RETRY_DELAY == 1000

\* ------------------------------------------------------------------- bounds
\* how many times the environment may change a port's status during a run
MaxEnvChanges == 1

\* how many requests a bound listener is sent in a run
MaxRequests == 2

Ports == DEFAULT_PORT..MAX_PORT

PortStatus == {"free", "inuse", "denied"}

NoPort == 0

VARIABLES
    portState,     \* environment: status of every candidate port
    envChanges,    \* how many times the environment changed so far
    fbEnvChanged,  \* the environment changed after the fallback started
    strategy,      \* "Primary" until startHttpFallback runs, then "Fallback"
    express,       \* ports on which an Express server holds a handle
    fb,            \* fallback servers: [handle, handlers, once]
    queue,         \* process.nextTick queue: outcomes of bind attempts
    timers,        \* pending setTimeout callbacks of startServer
    running,       \* the process has not ended
    exitCode,      \* exit status once the process has ended
    exitCause,     \* "none", "process.exit" or "uncaught"
    hist,          \* history: what the controller has done so far
    request,       \* the request served last
    response,      \* the response it was given
    reqLog,        \* the console lines it produced
    served,        \* how many requests were served
    prevRequest    \* the request served before the last one

ctlVars == <<strategy, express, fb, queue, timers, running, exitCode,
             exitCause, hist>>

serveVars == <<request, response, reqLog, served, prevRequest>>

vars == <<portState, envChanges, fbEnvChanged, ctlVars, serveVars>>

\* ports a bind may be asked for: the range and one port either side of it
Probe == (DEFAULT_PORT - 1)..(MAX_PORT + 1)

\* the program's state as one value, threaded through a synchronous call chain
Cur ==
    [env |-> portState, strategy |-> strategy, express |-> express, fb |-> fb, queue |-> queue,
     timers |-> timers, running |-> running, exitCode |-> exitCode,
     exitCause |-> exitCause, hist |-> hist]

Commit(m) ==
    /\ strategy' = m.strategy
    /\ express' = m.express
    /\ fb' = m.fb
    /\ queue' = m.queue
    /\ timers' = m.timers
    /\ running' = m.running
    /\ exitCode' = m.exitCode
    /\ exitCause' = m.exitCause
    /\ hist' = m.hist

\* ports on which this process holds a listening handle
OwnPorts(m) ==
    (m.express \cup {m.fb[i].handle : i \in 1..Len(m.fb)}) \ {NoPort}

\* outcome of the bind inside listen(port): decided by the port's status
BindResult(m, port) ==
    IF port \in OwnPorts(m) THEN "EADDRINUSE"
    ELSE IF port \notin Ports THEN "ok"
    ELSE IF m.env[port] = "free" THEN "ok"
    ELSE IF m.env[port] = "inuse" THEN "EADDRINUSE"
    ELSE "EACCES"

\* history of one bind attempt made under strategy s ("p" or "f") at port
NoteAttempt(h, s, port) ==
    IF s = "p"
    THEN [h EXCEPT !.pAttempts[port] = @ + 1,
                   !.pLast = port,
                   !.regress = @ \/ (h.pLast # NoPort /\ port <= h.pLast),
                   !.primaryAfterFb = @ \/ (h.fbStarts > 0)]
    ELSE [h EXCEPT !.fAttempts[port] = @ + 1,
                   !.fLast = port,
                   !.fFirst = IF h.fFirst = NoPort THEN port ELSE @,
                   !.regress = @ \/ (h.fLast # NoPort /\ port <= h.fLast)]

\* an uncaught exception ends the process with status 1
Throw(m) ==
    [m EXCEPT !.running = FALSE, !.exitCode = 1, !.exitCause = "uncaught"]

\* mutant: the fatal branch logs but forgets process.exit(1)
FatalExit_LogOnly(m) ==
    [m EXCEPT !.hist.fatalLogs = @ + 1]

\* console.error('Fatal error: ...'); process.exit(1)
FatalExit(m) ==
    [m EXCEPT !.running = FALSE, !.exitCode = 1, !.exitCause = "process.exit",
              !.hist.fatalLogs = @ + 1]

\* server.listen(port, cb) on fallback server s
fbListen(m, s, port) ==
    IF m.fb[s].handle # NoPort THEN Throw(m)
    ELSE LET r == BindResult(m, port)
             ev == [srv |-> s, kind |-> IF r = "ok" THEN "listening" ELSE "error",
                    code |-> r, port |-> port, rc |-> 0]
         IN [m EXCEPT !.fb[s].handle = IF r = "ok" THEN port ELSE NoPort,
                      !.queue = Append(@, ev),
                      !.hist = NoteAttempt(@, "f", port)]

\* startHttpServerWithFallback(server, port): listen, then register one more
\* 'error' handler on the same server
startHttpServerWithFallback(m, s, port) ==
    LET m1 == fbListen(m, s, port)
    IN IF ~m1.running THEN m1
       ELSE [m1 EXCEPT !.fb[s].handlers = Append(@, port)]

\* startHttpFallback(): a new bare http server, swept from DEFAULT_PORT
startHttpFallback(m) ==
    LET m1 == [m EXCEPT !.strategy = "Fallback",
                        !.fb = Append(@, [handle |-> NoPort, handlers |-> <<>>]),
                        !.hist.fbStarts = @ + 1]
    IN startHttpServerWithFallback(m1, Len(m1.fb), DEFAULT_PORT)

\* startServer(port, retryCount): app.listen on a fresh server whose single
\* 'error' handler closes over (port, retryCount)
startServer(m, port, retryCount) ==
    LET r == BindResult(m, port)
        ev == [srv |-> 0, kind |-> IF r = "ok" THEN "listening" ELSE "error",
               code |-> r, port |-> port, rc |-> retryCount]
    IN [m EXCEPT !.express = IF r = "ok" THEN @ \cup {port} ELSE @,
                 !.queue = Append(@, ev),
                 !.hist = NoteAttempt(@, "p", port)]

Pow2(n) == IF n <= 0 THEN 1 ELSE 2 ^ n

\* mutant: linear instead of exponential growth
Backoff_Linear(retryCount) == RETRY_DELAY * 2 * retryCount

\* the delay of line 95
Backoff(retryCount) == RETRY_DELAY * Pow2(retryCount)

\* mutant: the range check of line 87 is off by one (port > MAX_PORT)
expressOnError_OffByOne(m, port, retryCount, code) ==
    IF code = "EADDRINUSE"
    THEN IF port > MAX_PORT
         THEN startHttpFallback(m)
         ELSE LET delay == Backoff(retryCount)
              IN [m EXCEPT !.timers = @ \cup {[port |-> port + 1,
                                               rc |-> retryCount + 1,
                                               delay |-> delay]},
                           !.hist.delays = Append(@, delay),
                           !.hist.timerAfterFb = @ \/ (m.hist.fbStarts > 0)]
    ELSE startHttpFallback([m EXCEPT !.hist.pOther = @ + 1])

\* mutant: the `return` of line 91 is missing, so the exhausted sweep starts
\* the fallback and still schedules the next Primary attempt
expressOnError_NoReturn(m, port, retryCount, code) ==
    IF code = "EADDRINUSE"
    THEN LET m1 == IF port >= MAX_PORT THEN startHttpFallback(m) ELSE m
             delay == Backoff(retryCount)
         IN [m1 EXCEPT !.timers = @ \cup {[port |-> port + 1,
                                           rc |-> retryCount + 1,
                                           delay |-> delay]},
                       !.hist.delays = Append(@, delay),
                       !.hist.timerAfterFb = @ \/ (m1.hist.fbStarts > 0)]
    ELSE startHttpFallback([m EXCEPT !.hist.pOther = @ + 1])

\* mutant: the exhausted sweep only logs; the call of line 90 is missing
expressOnError_NoFallback(m, port, retryCount, code) ==
    IF code = "EADDRINUSE"
    THEN IF port >= MAX_PORT
         THEN m
         ELSE LET delay == Backoff(retryCount)
              IN [m EXCEPT !.timers = @ \cup {[port |-> port + 1,
                                               rc |-> retryCount + 1,
                                               delay |-> delay]},
                           !.hist.delays = Append(@, delay),
                           !.hist.timerAfterFb = @ \/ (m.hist.fbStarts > 0)]
    ELSE startHttpFallback([m EXCEPT !.hist.pOther = @ + 1])

\* mutant: the retry passes retryCount on without incrementing it
expressOnError_StaleRetryCount(m, port, retryCount, code) ==
    IF code = "EADDRINUSE"
    THEN IF port >= MAX_PORT
         THEN startHttpFallback(m)
         ELSE LET delay == Backoff(retryCount)
              IN [m EXCEPT !.timers = @ \cup {[port |-> port + 1,
                                               rc |-> retryCount,
                                               delay |-> delay]},
                           !.hist.delays = Append(@, delay),
                           !.hist.timerAfterFb = @ \/ (m.hist.fbStarts > 0)]
    ELSE startHttpFallback([m EXCEPT !.hist.pOther = @ + 1])

\* the 'error' handler of startServer (lines 82-104)
expressOnError(m, port, retryCount, code) ==
    IF code = "EADDRINUSE"
    THEN IF port >= MAX_PORT
         THEN startHttpFallback(m)
         ELSE LET delay == Backoff(retryCount)
              IN [m EXCEPT !.timers = @ \cup {[port |-> port + 1,
                                               rc |-> retryCount + 1,
                                               delay |-> delay]},
                           !.hist.delays = Append(@, delay),
                           !.hist.timerAfterFb = @ \/ (m.hist.fbStarts > 0)]
    ELSE startHttpFallback([m EXCEPT !.hist.pOther = @ + 1])

\* mutant: the range check of line 152 is off by one (port <= MAX_PORT)
fallbackOnError_PastMax(m, s, port, code) ==
    IF ~m.running THEN m
    ELSE IF code = "EADDRINUSE" /\ port <= MAX_PORT
    THEN startHttpServerWithFallback(m, s, port + 1)
    ELSE FatalExit([m EXCEPT !.hist.fOther =
                                 IF code = "EADDRINUSE" THEN @ ELSE @ + 1])

\* mutant: line 152 does not look at the error code
fallbackOnError_AnyError(m, s, port, code) ==
    IF ~m.running THEN m
    ELSE IF port < MAX_PORT
    THEN startHttpServerWithFallback(m, s, port + 1)
    ELSE FatalExit([m EXCEPT !.hist.fOther =
                                 IF code = "EADDRINUSE" THEN @ ELSE @ + 1])

\* one 'error' handler of startHttpServerWithFallback (lines 151-159), the
\* closure registered by the call for `port`
fallbackOnError(m, s, port, code) ==
    IF ~m.running THEN m
    ELSE IF code = "EADDRINUSE" /\ port < MAX_PORT
    THEN startHttpServerWithFallback(m, s, port + 1)
    ELSE FatalExit([m EXCEPT !.hist.fOther =
                                 IF code = "EADDRINUSE" THEN @ ELSE @ + 1])

\* emit('error') on fallback server s: the handlers hs[lo..hi] of the snapshot
\* run one after the other; a process that has ended runs nothing more
RECURSIVE RunHandlers(_, _, _, _, _, _)
RunHandlers(m, s, hs, code, lo, hi) ==
    IF lo > hi \/ ~m.running THEN m
    ELSE IF lo = hi THEN fallbackOnError(m, s, hs[lo], code)
    ELSE LET mid == (lo + hi) \div 2
         IN RunHandlers(RunHandlers(m, s, hs, code, lo, mid), s, hs, code, mid + 1, hi)

emitFallbackError(m, s, code) ==
    LET hs == m.fb[s].handlers
    IN RunHandlers(m, s, hs, code, 1, Len(hs))

\* ------------------------------------------------------- request responders
\* A URL is the sequence of its pieces: "/" separators, path segments, and
\* "?" followed by the query string.
Methods == {"GET", "HEAD", "POST", "OPTIONS"}

Urls ==
    {<<"/">>,
     <<"/", "good-evening">>,
     <<"/", "good-evening", "/">>,
     <<"/", "Good-Evening">>,
     <<"/", "?", "a=1">>,
     <<"/", "good-evening", "?", "a=1">>,
     <<"/", "missing">>}

\* the request body as express.json() sees it: absent, JSON that parses, or
\* Content-Type application/json with a body that does not parse
JsonBodies == {"none", "valid", "malformed"}

\* the request's If-None-Match header: absent, or the entity tag res.send
\* computes for the body the matched route sends
CondHeaders == {"none", "match"}

Requests == [method : Methods, url : Urls, json : JsonBodies, cond : CondHeaders]

NoRequest == [method |-> "", url |-> <<>>, json |-> "none", cond |-> "none"]

NoResponse == [status |-> 0, ctype |-> "", body |-> <<>>]

TextPlain == "text/plain"

TextHtml == "text/html; charset=utf-8"

\* String.prototype.toLowerCase on a piece of the URL
Lower(piece) == IF piece = "Good-Evening" THEN "good-evening" ELSE piece

RECURSIVE QueryAt(_, _)
\* index of the first "?" of url at or after i (Len(url) + 1 if none)
QueryAt(url, i) ==
    IF i > Len(url) THEN i
    ELSE IF url[i] = "?" THEN i
    ELSE QueryAt(url, i + 1)

\* parseurl(req).pathname: the URL without its query string
Pathname(url) == SubSeq(url, 1, QueryAt(url, 1) - 1)

\* Express matches a route path case-insensitively against the pathname and
\* lets one trailing slash pass (router defaults: no `case sensitive
\* routing`, no `strict routing`)
RouteMatches(route, url) ==
    LET pn == Pathname(url)
        bare == IF Len(pn) > 1 /\ pn[Len(pn)] = "/"
                THEN SubSeq(pn, 1, Len(pn) - 1) ELSE pn
    IN [i \in 1..Len(bare) |-> Lower(bare[i])] = route

\* mutant: the two handlers send each other's text
Routes_Swapped ==
    <<[path |-> <<"/">>, body |-> "Good evening"],
      [path |-> <<"/", "good-evening">>, body |-> "Hello World!"]>>

\* the routes of lines 51-64, in registration order
Routes ==
    <<[path |-> <<"/">>, body |-> "Hello World!"],
      [path |-> <<"/", "good-evening">>, body |-> "Good evening"]>>

\* a response to HEAD carries no body on the wire
Wire(method, resp) ==
    IF method = "HEAD" THEN [resp EXCEPT !.body = <<>>] ELSE resp

\* mutant: res.send labels the text as text/plain
Send_PlainText(req, text) ==
    IF req.cond = "match" /\ req.method \in {"GET", "HEAD"}
    THEN [status |-> 304, ctype |-> "", body |-> <<>>]
    ELSE [status |-> 200, ctype |-> TextPlain, body |-> <<text>>]

\* res.send(text) of lines 52 and 63: a string body goes out as text/html
\* with an entity tag; a GET or HEAD whose If-None-Match carries that tag is
\* answered 304 with no body and no Content-Type
Send(req, text) ==
    IF req.cond = "match" /\ req.method \in {"GET", "HEAD"}
    THEN [status |-> 304, ctype |-> "", body |-> <<>>]
    ELSE [status |-> 200, ctype |-> TextHtml, body |-> <<text>>]

\* the Express app (lines 32-64): logger, express.json(), the two GET routes
\* (which also answer HEAD, and make the router answer OPTIONS), then the
\* framework's default 404 page
ExpressRespond(req) ==
    LET hits == {i \in 1..Len(Routes) : RouteMatches(Routes[i].path, req.url)}
        first == CHOOSE i \in hits : \A j \in hits : i <= j
    IN Wire(req.method,
         IF req.json = "malformed"
         THEN [status |-> 400, ctype |-> TextHtml,
               body |-> <<"<pre>", "SyntaxError", "</pre>">>]
         ELSE IF hits # {} /\ req.method \in {"GET", "HEAD"}
         THEN Send(req, Routes[first].body)
         ELSE IF hits # {} /\ req.method = "OPTIONS"
         THEN [status |-> 200, ctype |-> TextHtml, body |-> <<"GET,HEAD">>]
         ELSE [status |-> 404, ctype |-> TextHtml,
               body |-> <<"<pre>", "Cannot ", req.method, " ">>
                           \o Pathname(req.url) \o <<"</pre>">>])

\* mutant: the logging middleware is registered after express.json(), so a
\* request whose body fails to parse is answered before it is logged
ExpressLog_AfterJson(req) ==
    IF req.json = "malformed" THEN <<>>
    ELSE <<[method |-> req.method, url |-> req.url, tag |-> ""]>>

\* the console line of the Express logging middleware (lines 32-36)
ExpressLog(req) == <<[method |-> req.method, url |-> req.url, tag |-> ""]>>

\* the request listener of the fallback server (lines 115-131)
FallbackRespond(req) ==
    Wire(req.method,
         IF req.method = "GET" /\ req.url = <<"/">>
         THEN [status |-> 200, ctype |-> TextPlain, body |-> <<"Hello World!">>]
         ELSE IF req.method = "GET" /\ req.url = <<"/", "good-evening">>
         THEN [status |-> 200, ctype |-> TextPlain, body |-> <<"Good evening">>]
         ELSE [status |-> 404, ctype |-> TextPlain, body |-> <<"Not Found">>])

\* the console line of the fallback listener (line 118)
FallbackLog(req) ==
    <<[method |-> req.method, url |-> req.url, tag |-> "(HTTP Fallback)"]>>

\* ------------------------------------------------------------------ actions
Hist0 ==
    [delays |-> <<>>, pAttempts |-> [p \in Probe |-> 0],
     fAttempts |-> [p \in Probe |-> 0], pLast |-> NoPort, fLast |-> NoPort,
     fFirst |-> NoPort, regress |-> FALSE, primaryAfterFb |-> FALSE,
     timerAfterFb |-> FALSE, fbStarts |-> 0, fatalLogs |-> 0,
     pOther |-> 0, fOther |-> 0, steps |-> 0]

\* the state before line 164 runs
Boot(e) ==
    [env |-> e, strategy |-> "Primary", express |-> {}, fb |-> <<>>, queue |-> <<>>,
     timers |-> {}, running |-> TRUE, exitCode |-> 0, exitCause |-> "none",
     hist |-> Hist0]

\* ports DEFAULT_PORT .. DEFAULT_PORT+k-1 occupied, the rest free
Prefix(k) == [p \in Ports |-> IF p < DEFAULT_PORT + k THEN "inuse" ELSE "free"]

InitPatterns == {Prefix(k) : k \in 0..(MAX_PORT - DEFAULT_PORT + 1)}

\* line 164: startServer() has been called
Init ==
    /\ portState \in InitPatterns
    /\ envChanges = 0
    /\ fbEnvChanged = FALSE
    /\ LET m == startServer(Boot(portState), DEFAULT_PORT, 0)
       IN /\ strategy = m.strategy
          /\ express = m.express
          /\ fb = m.fb
          /\ queue = m.queue
          /\ timers = m.timers
          /\ running = m.running
          /\ exitCode = m.exitCode
          /\ exitCause = m.exitCause
          /\ hist = m.hist
    /\ request = NoRequest
    /\ response = NoResponse
    /\ reqLog = <<>>
    /\ served = 0
    /\ prevRequest = NoRequest

EnvUnchanged == UNCHANGED <<portState, envChanges, fbEnvChanged, serveVars>>

\* process.nextTick delivers the 'listening' event of a successful bind:
\* the listen callback only logs the banner
TickListening ==
    /\ running
    /\ queue # <<>>
    /\ Head(queue).kind = "listening"
    /\ Commit([Cur EXCEPT !.queue = Tail(queue), !.hist.steps = @ + 1])
    /\ EnvUnchanged

\* process.nextTick delivers the 'error' event of an Express server
TickExpressError ==
    /\ running
    /\ queue # <<>>
    /\ Head(queue).kind = "error"
    /\ Head(queue).srv = 0
    /\ LET e == Head(queue)
       IN Commit(expressOnError([Cur EXCEPT !.queue = Tail(queue),
                                            !.hist.steps = @ + 1],
                                e.port, e.rc, e.code))
    /\ EnvUnchanged

\* process.nextTick delivers an 'error' event of a fallback server
TickFallbackError ==
    /\ running
    /\ queue # <<>>
    /\ Head(queue).kind = "error"
    /\ Head(queue).srv > 0
    /\ LET e == Head(queue)
       IN Commit(emitFallbackError([Cur EXCEPT !.queue = Tail(queue),
                                               !.hist.steps = @ + 1],
                                   e.srv, e.code))
    /\ EnvUnchanged

\* a backoff timer fires: startServer(port + 1, retryCount + 1)
TimerFire ==
    /\ running
    /\ queue = <<>>
    /\ \E t \in timers :
          Commit(startServer([Cur EXCEPT !.timers = @ \ {t},
                                         !.hist.steps = @ + 1],
                             t.port, t.rc))
    /\ EnvUnchanged

\* another process takes, releases or blocks a port this process does not hold
EnvChange ==
    /\ running
    /\ queue # <<>> \/ timers # {}
    /\ envChanges < MaxEnvChanges
    /\ \E p \in Ports \ OwnPorts(Cur) : \E st \in PortStatus \ {portState[p]} :
          portState' = [portState EXCEPT ![p] = st]
    /\ envChanges' = envChanges + 1
    /\ fbEnvChanged' = (fbEnvChanged \/ strategy = "Fallback")
    /\ UNCHANGED <<ctlVars, serveVars>>

Next ==
    \/ TickListening
    \/ TickExpressError
    \/ TickFallbackError
    \/ TimerFire
    \/ EnvChange

Spec == Init /\ [][Next]_vars

\* ------------------------------------------------------------------ serving
\* the Express server listening on DEFAULT_PORT: every port free, the first
\* attempt bound and its 'listening' event delivered
PrimaryServing ==
    LET m == startServer(Boot(Prefix(0)), DEFAULT_PORT, 0)
    IN [m EXCEPT !.queue = Tail(@), !.hist.steps = @ + 1]

\* the fallback server listening on DEFAULT_PORT: the Primary attempt on
\* DEFAULT_PORT was refused (not a conflict), the port became free, the
\* refusal was delivered and the fallback bound the port
FallbackServing ==
    LET denied == [Prefix(0) EXCEPT ![DEFAULT_PORT] = "denied"]
        m0 == startServer(Boot(denied), DEFAULT_PORT, 0)
        m1 == [m0 EXCEPT !.env = Prefix(0), !.queue = Tail(@),
                         !.hist.steps = @ + 1]
        m2 == expressOnError(m1, DEFAULT_PORT, 0, "EACCES")
    IN [m2 EXCEPT !.queue = Tail(@), !.hist.steps = @ + 1]

ServeInit ==
    /\ portState = Prefix(0)
    /\ fbEnvChanged = FALSE
    /\ \E m \in {PrimaryServing, FallbackServing} :
          /\ envChanges = (IF m.strategy = "Primary" THEN 0 ELSE 1)
          /\ strategy = m.strategy
          /\ express = m.express
          /\ fb = m.fb
          /\ queue = m.queue
          /\ timers = m.timers
          /\ running = m.running
          /\ exitCode = m.exitCode
          /\ exitCause = m.exitCause
          /\ hist = m.hist
    /\ request = NoRequest
    /\ response = NoResponse
    /\ reqLog = <<>>
    /\ served = 0
    /\ prevRequest = NoRequest

\* one request arrives at the bound listener and is answered
Serve ==
    /\ running
    /\ OwnPorts(Cur) # {}
    /\ served < MaxRequests
    /\ \E req \in Requests :
          /\ request' = req
          /\ response' = IF express # {} THEN ExpressRespond(req)
                         ELSE FallbackRespond(req)
          /\ reqLog' = IF express # {} THEN ExpressLog(req)
                       ELSE FallbackLog(req)
    /\ served' = served + 1
    /\ prevRequest' = request
    /\ UNCHANGED <<portState, envChanges, fbEnvChanged, ctlVars>>

ServeNext == Serve

ServeSpec == ServeInit /\ [][ServeNext]_vars

\* ------------------------------------------------------- shared vocabulary
\* nothing is queued and no timer is pending: the controller has come to rest
Quiescent == queue = <<>> /\ timers = {}

\* ports DEFAULT_PORT..p-1 are occupied and p is free
OccupiedBelow(p) ==
    /\ \A q \in Ports : q < p => portState[q] = "inuse"
    /\ portState[p] = "free"

AllInUse == \A q \in Ports : portState[q] = "inuse"

\* the port the fallback server is bound to (NoPort if none)
FbHandle == IF fb = <<>> THEN NoPort ELSE fb[Len(fb)].handle

\* the step delivers the event at the head of the nextTick queue
Delivers(srvIsFallback, kind) ==
    /\ running
    /\ queue # <<>>
    /\ Head(queue).kind = kind
    /\ (Head(queue).srv > 0) = srvIsFallback
    /\ envChanges' = envChanges

ExpectedDelays(p) == [i \in 1..(p - DEFAULT_PORT) |-> RETRY_DELAY * 2 ^ (i - 1)]

IsPrefixOf(a, b) == Len(a) <= Len(b) /\ \A i \in 1..Len(a) : a[i] = b[i]

\* ------------------------------------------------------------------ claims

\* C1: for every port p in 3000..3010, if ports 3000..p-1 are occupied and p
\* is free (and stay so), the Primary sweep never starts the fallback, binds
\* no port other than p, schedules the backoff delays 1000*2^i in order, and
\* comes to rest bound at exactly p after exactly p-3000 delays.
C1_PrimaryBindsAtFirstFreePort ==
    \A p \in Ports :
        (envChanges = 0 /\ OccupiedBelow(p)) =>
            /\ strategy = "Primary"
            /\ hist.fbStarts = 0
            /\ running
            /\ express \subseteq {p}
            /\ IsPrefixOf(hist.delays, ExpectedDelays(p))
            /\ Quiescent => (express = {p} /\ hist.delays = ExpectedDelays(p))

C1_Witness ==
    /\ envChanges = 0
    /\ OccupiedBelow(MAX_PORT)
    /\ Quiescent
    /\ express = {MAX_PORT}
    /\ Len(hist.delays) = MAX_PORT - DEFAULT_PORT

\* C2: the delivery of the port conflict at MAX_PORT to the Primary handler
\* switches the strategy to Fallback and, in the same step, issues the first
\* fallback bind attempt at DEFAULT_PORT; no backoff timer is pending before
\* the step, none is scheduled by it, and no delay is recorded.
C2_ExhaustedStep ==
    (/\ Delivers(FALSE, "error")
     /\ Head(queue).code = "EADDRINUSE"
     /\ Head(queue).port >= MAX_PORT)
        => /\ strategy = "Primary"
           /\ strategy' = "Fallback"
           /\ hist'.fbStarts = hist.fbStarts + 1
           /\ hist'.fFirst = DEFAULT_PORT
           /\ hist'.fAttempts[DEFAULT_PORT] = 1
           /\ hist'.fLast = DEFAULT_PORT
           /\ timers = {}
           /\ timers' = {}
           /\ hist'.delays = hist.delays
           /\ Len(queue') = 1
           /\ queue'[1].srv > 0
           /\ queue'[1].port = DEFAULT_PORT

C2_SwitchWithoutDelay == [][C2_ExhaustedStep]_vars

C2_Witness ==
    /\ envChanges = 0
    /\ AllInUse
    /\ strategy = "Fallback"
    /\ hist.pAttempts[MAX_PORT] = 1
    /\ hist.fAttempts[DEFAULT_PORT] = 1
    /\ hist.fLast = DEFAULT_PORT
    /\ Len(hist.delays) = MAX_PORT - DEFAULT_PORT

\* C3: while every port 3000..3010 is occupied, no listener is ever bound,
\* the fatal message is not logged while the process runs, a process that
\* has ended has ended through process.exit(1) right after logging it exactly
\* once, and the controller cannot come to rest without having exited.
C3_AllOccupiedExits ==
    (AllInUse /\ envChanges = 0) =>
        /\ OwnPorts(Cur) = {}
        /\ running => (hist.fatalLogs = 0 /\ ~Quiescent)
        /\ ~running => (/\ exitCode = 1
                        /\ hist.fatalLogs = 1
                        /\ exitCause = "process.exit")

C3_Witness ==
    /\ AllInUse
    /\ envChanges = 0
    /\ ~running
    /\ exitCode = 1
    /\ hist.fatalLogs = 1
    /\ hist.fAttempts[MAX_PORT] > 0

\* C4: under the Fallback strategy, for every port p in 3000..3010, if ports
\* 3000..p-1 are occupied and p is free (and stay so from the start of the
\* fallback), the process does not exit, the fallback server is bound to no
\* port other than p, and the sweep comes to rest bound at exactly p.
C4_FallbackBindsAtFirstFreePort ==
    \A p \in Ports :
        (strategy = "Fallback" /\ ~fbEnvChanged /\ OccupiedBelow(p)) =>
            /\ running
            /\ FbHandle \in {NoPort, p}
            /\ Quiescent => FbHandle = p

\* C5: startHttpFallback runs at most once, on at most one fallback server;
\* once it has run, no startServer call is made and none is pending (no
\* backoff timer, no undelivered outcome of an Express server).
C5_SwitchAtMostOnce ==
    /\ hist.fbStarts <= 1
    /\ Len(fb) = hist.fbStarts
    /\ (strategy = "Fallback") = (hist.fbStarts = 1)
    /\ ~hist.primaryAfterFb
    /\ ~hist.timerAfterFb
    /\ strategy = "Fallback" =>
          /\ timers = {}
          /\ \A i \in 1..Len(queue) : queue[i].srv > 0

C5_Witness ==
    /\ strategy = "Fallback"
    /\ hist.fbStarts = 1
    /\ hist.pAttempts[MAX_PORT] = 1
    /\ ~running

\* C6: every bind attempt, under either strategy, is on a port in
\* 3000..3010: no attempt was made, is queued or is scheduled on a port
\* below DEFAULT_PORT or above MAX_PORT.
C6_PortsInRange ==
    /\ \A p \in Probe \ Ports : hist.pAttempts[p] = 0 /\ hist.fAttempts[p] = 0
    /\ hist.pLast \in Ports
    /\ hist.fLast \in Ports \cup {NoPort}
    /\ \A i \in 1..Len(queue) : queue[i].port \in Ports
    /\ \A t \in timers : t.port \in Ports

C6_Witness ==
    /\ hist.pAttempts[DEFAULT_PORT] = 1
    /\ hist.pAttempts[MAX_PORT] = 1
    /\ hist.fAttempts[DEFAULT_PORT] > 0
    /\ hist.fAttempts[MAX_PORT] > 0

\* C7: at most one bind attempt is outstanding at any moment: the nextTick
\* queue never holds more than one undelivered bind outcome.
C7_OneOutstandingAttempt == Len(queue) <= 1

\* C8: the delivery of a bind failure other than EADDRINUSE to the Primary
\* handler starts the fallback at DEFAULT_PORT in the same step, schedules no
\* timer and makes no Primary attempt, and none is made afterwards; the
\* delivery of such a failure to the fallback handlers ends the process with
\* status 1 through the fatal branch, with no further bind attempt.
C8_OtherErrorStep ==
    /\ (Delivers(FALSE, "error") /\ Head(queue).code # "EADDRINUSE") =>
          /\ strategy = "Primary"
          /\ strategy' = "Fallback"
          /\ hist'.fbStarts = hist.fbStarts + 1
          /\ hist'.fFirst = DEFAULT_PORT
          /\ hist'.fAttempts[DEFAULT_PORT] = 1
          /\ timers' = {}
          /\ hist'.delays = hist.delays
          /\ hist'.pAttempts = hist.pAttempts
    /\ strategy = "Fallback" =>
          /\ hist'.pAttempts = hist.pAttempts
          /\ hist'.delays = hist.delays
          /\ timers' = {}
    /\ (Delivers(TRUE, "error") /\ Head(queue).code # "EADDRINUSE") =>
          /\ ~running'
          /\ exitCode' = 1
          /\ exitCause' = "process.exit"
          /\ hist'.fatalLogs = hist.fatalLogs + 1
          /\ hist'.fAttempts = hist.fAttempts

Settled ==
    \/ ~running /\ exitCode = 1
    \/ running /\ Quiescent /\ OwnPorts(Cur) # {}

\* every sweep delivers at most one outcome and fires at most one timer per
\* port, and a bound fallback listener takes one more delivery
StepBound == 3 * (MAX_PORT - DEFAULT_PORT + 1)

\* C9: under any pattern of port occupation, changing or not, startup ends:
\* the controller takes a bounded number of steps (deliveries of bind
\* outcomes and timer expiries), it can only come to rest with a listener
\* bound, and a process that has ended has exit status 1.
C9_StartupTerminates ==
    /\ hist.steps <= StepBound
    /\ (running /\ Quiescent) => Settled
    /\ ~running => Settled

C9_Witness ==
    /\ envChanges > 0
    /\ hist.fbStarts = 1
    /\ running
    /\ Quiescent
    /\ FbHandle # NoPort

\* C10: for every request the Express responder and the fallback responder
\* return the same status and the same body, and for every request other
\* than GET / and GET /good-evening both return 404 with body 'Not Found'.
C10_ResponseParity ==
    served > 0 =>
        LET e == ExpressRespond(request)
            f == FallbackRespond(request)
            defined == /\ request.method = "GET"
                       /\ request.url \in {<<"/">>, <<"/", "good-evening">>}
        IN /\ response \in {e, f}
           /\ e.status = f.status
           /\ e.body = f.body
           /\ ~defined => (response.status = 404 /\ response.body = <<"Not Found">>)

\* the URLs of the two documented routes
RouteUrl(i) == IF i = 1 THEN <<"/">> ELSE <<"/", "good-evening">>

\* the request is a GET for exactly "/" (i = 1) or "/good-evening" (i = 2)
IsRouteGet(req, i) == req.method = "GET" /\ req.url = RouteUrl(i)

\* the texts the two routes are documented to send
Greeting(i) == IF i = 1 THEN "Hello World!" ELSE "Good evening"

C12_NoListenerAtExit ==
    (~running /\ exitCode = 1) => OwnPorts(Cur) = {}

\* C17: once a listener is bound, the controller makes no further bind
\* attempt, starts no backoff timer, makes no strategy switch and does not
\* end the process: every step taken with a listener bound leaves all of
\* these as they are.
C17_BoundStep ==
    (running /\ OwnPorts(Cur) # {}) =>
        /\ running'
        /\ OwnPorts(Cur)' = OwnPorts(Cur)
        /\ strategy' = strategy
        /\ timers' = timers
        /\ hist'.delays = hist.delays
        /\ hist'.pAttempts = hist.pAttempts
        /\ hist'.fAttempts = hist.fAttempts
        /\ hist'.fbStarts = hist.fbStarts

C17_BindIsFinal == [][C17_BoundStep]_vars

\* C18: within each strategy's sweep the ports are attempted in strictly
\* increasing order starting at DEFAULT_PORT, each port at most once, so a
\* strategy makes at most 11 bind attempts.
C18_EachPortOnce ==
    /\ ~hist.regress
    /\ hist.pAttempts[DEFAULT_PORT] = 1
    /\ hist.fFirst \in {NoPort, DEFAULT_PORT}
    /\ \A p \in Probe : hist.pAttempts[p] <= 1 /\ hist.fAttempts[p] <= 1

\* C19: the process ends only under the Fallback strategy, with status 1,
\* and only in a step that delivers to the fallback handlers a bind failure
\* that is a port conflict at MAX_PORT or is not a port conflict.
C19_ExitStep ==
    (running /\ ~running') =>
        /\ strategy = "Fallback"
        /\ exitCode' = 1
        /\ Delivers(TRUE, "error")
        /\ \/ Head(queue).code # "EADDRINUSE"
           \/ Head(queue).port = MAX_PORT

C19_ExitOnlyOnFallbackFailure == [][C19_ExitStep]_vars

\* C13: no delay is ever scheduled while the strategy is Fallback, and once
\* a conflict at a port p < MAX_PORT has been delivered to the fallback
\* handlers the bind attempt on p+1 has been issued.
C13_FallbackStep ==
    /\ strategy = "Fallback" =>
          /\ timers = {}
          /\ timers' = {}
          /\ hist'.delays = hist.delays
          /\ ~hist'.timerAfterFb
    /\ (/\ Delivers(TRUE, "error")
        /\ Head(queue).code = "EADDRINUSE"
        /\ Head(queue).port < MAX_PORT)
          => hist'.fAttempts[Head(queue).port + 1] > 0

C13_FallbackRetriesAtOnce == [][C13_FallbackStep]_vars

RECURSIVE SumTo(_, _)
\* the sum of the first n entries of a sequence of numbers
SumTo(seq, n) == IF n = 0 THEN 0 ELSE seq[n] + SumTo(seq, n - 1)

\* C14: under Primary the retry count of an attempt on port p is p - 3000
\* (for a queued outcome and for a scheduled retry alike), the i-th delay
\* scheduled is 1000 * 2^(i-1) ms, i.e. 1000 * 2^(p-3000) after the conflict
\* at p, at most 10 delays are scheduled, none exceeds 512000 ms and their
\* sum is at most 1023000 ms.
C14_BackoffSchedule ==
    /\ \A i \in 1..Len(queue) :
          queue[i].srv = 0 => queue[i].rc = queue[i].port - DEFAULT_PORT
    /\ \A t \in timers :
          /\ t.rc = t.port - DEFAULT_PORT
          /\ t.delay = RETRY_DELAY * 2 ^ (t.port - 1 - DEFAULT_PORT)
          /\ hist.delays[Len(hist.delays)] = t.delay
          /\ Len(hist.delays) = t.port - DEFAULT_PORT
    /\ Len(hist.delays) <= MAX_PORT - DEFAULT_PORT
    /\ \A i \in 1..Len(hist.delays) :
          /\ hist.delays[i] = RETRY_DELAY * 2 ^ (i - 1)
          /\ hist.delays[i] <= 512000
    /\ SumTo(hist.delays, Len(hist.delays)) <= 1023000

C14_Witness ==
    /\ Len(hist.delays) = MAX_PORT - DEFAULT_PORT
    /\ hist.delays[Len(hist.delays)] = 512000
    /\ SumTo(hist.delays, Len(hist.delays)) = 1023000
    /\ hist.pAttempts[MAX_PORT] = 1

\* C15: every request, matched or not, produces exactly one log line, and
\* that line carries the request's method and its URL, under the Express
\* responder and under the fallback responder.
C15_OneLogLinePerRequest ==
    served > 0 =>
        /\ Len(reqLog) = 1
        /\ reqLog[1].method = request.method
        /\ reqLog[1].url = request.url

C15_Witness ==
    /\ served > 0
    /\ express # {}
    /\ request.json = "malformed"
    /\ response.status = 400
    /\ Len(reqLog) = 1
    /\ reqLog[1].url = request.url

====
